---- MODULE Spec2Model ----
(***************************************************************************)
(* Model of the NomadCrew front end: the todo list screen (TodoList.tsx)   *)
(* over the todo store, the auth store and the onboarding provider         *)
(* (Avatar.tsx), the welcome and verify-email screens (unnamed/part_000)   *)
(* and the create-trip flow (CreateTripModal.tsx, trips.tsx).              *)
(* Each screen or store has its own specification over the shared state.   *)
(***************************************************************************)
EXTENDS Integers, Sequences, FiniteSets, Bags, TLC

VARIABLES
    \* ---- todo screen and todo store
    tripId,        \* TodoList's tripId prop ("none" before the mount)
    todos,         \* store.todos: sequence of todo ids
    todoLoading,   \* store.loading
    todoError,     \* store.error (Null or a message)
    hasMore,       \* store.hasMore
    wsStatus,      \* store.wsConnection?.status ("absent" when wsConnection is null)
    pending,       \* bag of the fetchTodos calls whose response has not arrived yet
    tripChanges,   \* history: how often the tripId prop has changed since the mount
    lastActor,     \* history: who took the last step: a handler or effect of
                   \* "TodoList", the "store" or the realtime "subscription"
    \* ---- auth store (useAuthStore)
    user,          \* store.user: <<>> for null, <<u>> for a User
    token,         \* store.token (Null or an access token)
    authLoading,   \* store.loading
    authError,     \* store.error (Null or a message)
    isInitialized, \* store.isInitialized
    isFirstTime,   \* store.isFirstTime
    isVerifying,   \* store.isVerifying
    inflight,      \* per store method, the calls suspended at their await
    authEvent,     \* history: the last step of a store method, what the backend
                   \* answered and how the method's promise settled
    \* ---- onboarding (OnboardingProvider, WelcomeScreen)
    isFirstLaunch,       \* AsyncStorage key 'isFirstLaunch' (Null when absent); survives launches
    providerIsFirstTime, \* OnboardingProvider's isFirstTime state
    checkPc,             \* where checkFirstLaunch of the current launch stands
    launches,            \* number of launches of the app so far
    reported,            \* history: isFirstTime as each launch's check left it
    route,               \* the route on screen
    errorsLogged,        \* console.error calls of handleComplete in this launch
    onbEvent,            \* history: the last onboarding step
    \* ---- create-trip flow (TripsScreen, CreateTripModal)
    isCreateModalVisible, \* TripsScreen's isCreateModalVisible
    trip,                 \* the modal's trip form
    showDatePicker,       \* the modal's showDatePicker (Null, "start" or "end")
    modalLoading,         \* the modal's loading
    submits,              \* handleSubmit calls suspended at createTrip
    alert,                \* the last Alert.alert message ("none" before any)
    platform,             \* Platform.OS
    tripEvent             \* history: the last step of the create-trip flow

todoVars == <<tripId, todos, todoLoading, todoError, hasMore, wsStatus,
              pending, tripChanges, lastActor>>

authVars == <<user, token, authLoading, authError, isInitialized, isFirstTime,
              isVerifying, inflight, authEvent>>

onbVars == <<isFirstLaunch, providerIsFirstTime, checkPc, launches, reported, route,
             errorsLogged, onbEvent>>

tripVars == <<isCreateModalVisible, trip, showDatePicker, modalLoading, submits, alert,
              platform, tripEvent>>

vars == <<todoVars, authVars, onbVars, tripVars>>

nonTodoVars == <<authVars, onbVars, tripVars>>
nonAuthVars == <<todoVars, onbVars, tripVars>>
nonOnbVars == <<todoVars, authVars, tripVars>>
nonTripVars == <<todoVars, authVars, onbVars>>

Null == "null"

Min(a, b) == IF a < b THEN a ELSE b

(***************************************************************************)
(* Bounds of the model.                                                    *)
(***************************************************************************)
ServerTotalA == 45   \* todos the backend holds for trip "tA" (three pages)
ServerTotalB == 3    \* todos the backend holds for trip "tB" (one short page)
MaxPending == 2      \* fetchTodos calls in flight at once
MaxTripChanges == 2  \* changes of the tripId prop after the mount
MaxInflight == 2     \* auth store calls suspended at an await at once
MaxLaunches == 8     \* launches of the app
MaxDay == 2          \* days the date picker offers
MaxSubmits == 2      \* handleSubmit calls suspended at createTrip at once
MaxErrorsLogged == 3 \* errors handleComplete logs in one launch

Trips == {"tA", "tB"}

(***************************************************************************)
(* The todo screen: src/components/todo/TodoList.tsx                       *)
(***************************************************************************)
PageLimit == 20

\* The backend's list for a trip; todo ids are distinct across trips.
ServerTotal(t) == IF t = "tA" THEN ServerTotalA ELSE ServerTotalB
ServerTodos(t) == [i \in 1..ServerTotal(t) |-> IF t = "tA" THEN i ELSE 100 + i]

\* The page the backend returns for fetchTodos(t, offset, limit).
ServerPage(t, offset, limit) ==
    SubSeq(ServerTodos(t), offset + 1, Min(offset + limit, ServerTotal(t)))

ConnectionStatuses == {"CONNECTING", "CONNECTED", "RECONNECTING", "ERROR", "DISCONNECTED"}

\* Which of the four returns of TodoListContent renders.
TodoView ==
    IF todoLoading /\ Len(todos) = 0 THEN "spinner"
    ELSE IF todoError # Null THEN "error"
    ELSE IF Len(todos) = 0 THEN "empty"
    ELSE "list"

\* A faulty banner text: the two texts swapped.
BannerText_swapped(status) ==
    IF status = "CONNECTING" THEN "Reconnecting..." ELSE "Connecting..."

\* The text of the connection banner for a CONNECTING / RECONNECTING status.
BannerText(status) ==
    IF status = "CONNECTING" THEN "Connecting..." ELSE "Reconnecting..."

\* The connection banner on screen ("none" when it is not rendered).
ConnectionBanner ==
    IF TodoView = "list" /\ wsStatus \in {"CONNECTING", "RECONNECTING"}
    THEN BannerText(wsStatus)
    ELSE "none"

\* Whether the connection-error message is on screen.
ConnectionErrorShown == TodoView = "list" /\ wsStatus = "ERROR"

\* A fetchTodos call in flight; kind tells which handler made it.
Request(t, offset, limit, kind) ==
    [trip |-> t, offset |-> offset, limit |-> limit, kind |-> kind]

\* store.fetchTodos(t, offset, limit) up to its await: the request goes out.
fetchTodos(t, offset, limit, kind) ==
    /\ BagCardinality(pending) < MaxPending
    /\ pending' = pending (+) SetToBag({Request(t, offset, limit, kind)})
    /\ todoLoading' = TRUE
    /\ todoError' = Null
    /\ UNCHANGED <<todos, hasMore>>

\* A faulty load-more offset: the page index instead of the item count.
LoadMoreOffset_pageIndex == Len(todos) \div PageLimit

\* The offset handleLoadMore asks for.
LoadMoreOffset == Len(todos)

\* A faulty retry offset: the current length instead of the start.
RetryOffset_length == Len(todos)

\* The offset handleRetry asks for.
RetryOffset == 0

\* A faulty handleLoadMore condition: the loading flag is not looked at.
LoadMoreGuard_noLoadingCheck == hasMore

\* The condition of handleLoadMore.
LoadMoreGuard == ~todoLoading /\ hasMore

\* useEffect on mount: the initial load.
Mount(t) ==
    /\ tripId = "none"
    /\ tripId' = t
    /\ fetchTodos(t, 0, PageLimit, "effect")
    /\ lastActor' = "TodoList"
    /\ UNCHANGED <<wsStatus, tripChanges>>
    /\ UNCHANGED nonTodoVars

\* The parent passes another tripId: the effect runs again.
ChangeTrip(t) ==
    /\ tripId # "none"
    /\ t # tripId
    /\ tripId' = t
    /\ tripChanges < MaxTripChanges
    /\ tripChanges' = tripChanges + 1
    /\ fetchTodos(t, 0, PageLimit, "effect")
    /\ lastActor' = "TodoList"
    /\ UNCHANGED wsStatus
    /\ UNCHANGED nonTodoVars

\* FlashList.onEndReached -> handleLoadMore; the list is on screen only in the list view.
LoadMoreFetch ==
    /\ tripId # "none"
    /\ TodoView = "list"
    /\ LoadMoreGuard
    /\ fetchTodos(tripId, LoadMoreOffset, PageLimit, "loadMore")
    /\ lastActor' = "TodoList"
    /\ UNCHANGED <<tripId, wsStatus, tripChanges>>
    /\ UNCHANGED nonTodoVars

\* onEndReached while the guard is false: handleLoadMore does nothing.
LoadMoreSkip ==
    /\ tripId # "none"
    /\ TodoView = "list"
    /\ ~LoadMoreGuard
    /\ lastActor' = "TodoList"
    /\ UNCHANGED <<tripId, todos, todoLoading, todoError, hasMore, wsStatus, pending, tripChanges>>
    /\ UNCHANGED nonTodoVars

\* The Retry button of the error view -> handleRetry.
Retry ==
    /\ tripId # "none"
    /\ TodoView = "error"
    /\ fetchTodos(tripId, RetryOffset, PageLimit, "retry")
    /\ lastActor' = "TodoList"
    /\ UNCHANGED <<tripId, wsStatus, tripChanges>>
    /\ UNCHANGED nonTodoVars

\* store.fetchTodos after its await, the request having succeeded.
FetchSucceeds ==
    /\ \E r \in BagToSet(pending) :
         LET page == ServerPage(r.trip, r.offset, r.limit)
         IN /\ todos' = IF r.offset = 0 THEN page ELSE todos \o page
            /\ hasMore' = (r.offset + Len(page) < ServerTotal(r.trip))
            /\ pending' = pending (-) SetToBag({r})
    /\ todoLoading' = FALSE
    /\ lastActor' = "store"
    /\ UNCHANGED <<tripId, todoError, wsStatus, tripChanges>>
    /\ UNCHANGED nonTodoVars

\* store.fetchTodos after its await, the request having failed.
FetchFails ==
    /\ \E r \in BagToSet(pending) : pending' = pending (-) SetToBag({r})
    /\ todoError' = "Failed to fetch todos"
    /\ todoLoading' = FALSE
    /\ lastActor' = "store"
    /\ UNCHANGED <<tripId, todos, hasMore, wsStatus, tripChanges>>
    /\ UNCHANGED nonTodoVars

\* The realtime subscription reports a status (or the connection goes away).
WsStatusChange(s) ==
    /\ s # wsStatus
    /\ wsStatus' = s
    /\ lastActor' = "subscription"
    /\ UNCHANGED <<tripId, todos, todoLoading, todoError, hasMore, pending, tripChanges>>
    /\ UNCHANGED nonTodoVars

TodoInit ==
    /\ tripId = "none"
    /\ todos = <<>>
    /\ todoLoading = FALSE
    /\ todoError = Null
    /\ hasMore = TRUE
    /\ wsStatus = "absent"
    /\ pending = EmptyBag
    /\ tripChanges = 0
    /\ lastActor = "none"

TodoNext ==
    \/ \E t \in Trips : Mount(t)
    \/ \E t \in Trips : ChangeTrip(t)
    \/ LoadMoreFetch
    \/ LoadMoreSkip
    \/ Retry
    \/ FetchSucceeds
    \/ FetchFails
    \/ \E s \in ConnectionStatuses \cup {"absent"} : WsStatusChange(s)

(***************************************************************************)
(* The auth store: useAuthStore in src/components/ui/Avatar.tsx            *)
(***************************************************************************)
NaN == -1

Digits == <<"0", "1", "2", "3", "4", "5", "6", "7", "8", "9">>

IsDigit(c) == \E d \in 1..10 : Digits[d] = c

DigitValue(c) == (CHOOSE d \in 1..10 : Digits[d] = c) - 1

RECURSIVE ParseDigits(_, _)
\* The number written by the leading digits of s, after the digits read so far.
ParseDigits(s, acc) ==
    IF s = <<>> \/ ~IsDigit(Head(s)) THEN acc
    ELSE ParseDigits(Tail(s), 10 * acc + DigitValue(Head(s)))

\* parseInt(id): the leading digits of the string, NaN when it starts with none.
parseInt(s) == IF s = <<>> \/ ~IsDigit(Head(s)) THEN NaN ELSE ParseDigits(s, 0)

\* The sessions the backend may hand out (session.user.id is a string).
Sessions ==
    { [id |-> <<"4", "2", "b">>, email |-> "ann@example.com", username |-> Null,
       access_token |-> "token-ann"],
      [id |-> <<"c", "7">>, email |-> Null, username |-> "bob",
       access_token |-> "token-bob"] }

\* x ?? ''
OrEmpty(x) == IF x = Null THEN "" ELSE x

\* The User built from a session (initialize, login, handleGoogleSignInSuccess).
BuildUser(session) ==
    [id |-> parseInt(session.id),
     email |-> OrEmpty(session.email),
     username |-> OrEmpty(session.username)]

\* Messages an error of the backend may carry.
ErrorMessages == {"Invalid login credentials", ""}

\* What supabase.auth.getSession() may do.
GetSessionResults ==
    [kind : {"session"}, session : Sessions] \cup
    {[kind |-> "none"], [kind |-> "error"], [kind |-> "throws"]}

\* A faulty recoverSession that never returns the session.
recoverSession_dropsSession(result) == <<>>

\* recoverSession(): the session if getSession returned one without error, else null.
recoverSession(result) ==
    IF result.kind = "session" THEN <<result.session>> ELSE <<>>

AuthOps == {"initialize", "register", "login", "google", "logout"}

RECURSIVE SumOver(_, _)
SumOver(f, S) ==
    IF S = {} THEN 0
    ELSE LET x == CHOOSE y \in S : TRUE IN f[x] + SumOver(f, S \ {x})

\* A method reaches its await and suspends.
Suspend(op) ==
    /\ SumOver(inflight, AuthOps) < MaxInflight
    /\ inflight' = [inflight EXCEPT ![op] = @ + 1]

\* A suspended call of the method resumes.
Resume(op) ==
    /\ inflight[op] > 0
    /\ inflight' = [inflight EXCEPT ![op] = @ - 1]

\* A step of a store method: what the backend answered (outcome, session,
\* message) and how the method's promise stands after the step.
Event(op, outcome, promise, session, message) ==
    [op |-> op, outcome |-> outcome, promise |-> promise, session |-> session,
     message |-> message]

\* initialize(): the guard returns at once.
InitializeSkipped ==
    /\ authLoading \/ isInitialized
    /\ authEvent' = Event("initialize", "skipped", "resolved", <<>>, Null)
    /\ UNCHANGED <<user, token, authLoading, authError, isInitialized, isFirstTime,
                   isVerifying, inflight>>
    /\ UNCHANGED nonAuthVars

\* initialize(): past the guard, up to the await of recoverSession().
InitializeStart ==
    /\ ~(authLoading \/ isInitialized)
    /\ Suspend("initialize")
    /\ authLoading' = TRUE
    /\ authEvent' = Event("initialize", "start", "pending", <<>>, Null)
    /\ UNCHANGED <<user, token, authError, isInitialized, isFirstTime, isVerifying>>
    /\ UNCHANGED nonAuthVars

\* initialize(): after the await of recoverSession().
InitializeDone(result) ==
    /\ Resume("initialize")
    /\ LET session == recoverSession(result)
       IN /\ user' = IF session # <<>> THEN <<BuildUser(session[1])>> ELSE <<>>
          /\ token' = IF session # <<>> THEN session[1].access_token ELSE Null
          /\ authEvent' = Event("initialize", result.kind, "resolved",
                                IF result.kind = "session" THEN <<result.session>> ELSE <<>>,
                                Null)
    /\ isInitialized' = TRUE
    /\ authLoading' = FALSE
    /\ authError' = Null
    /\ UNCHANGED <<isFirstTime, isVerifying>>
    /\ UNCHANGED nonAuthVars

\* register(): up to the await of signUp().
RegisterStart ==
    /\ Suspend("register")
    /\ authLoading' = TRUE
    /\ authError' = Null
    /\ authEvent' = Event("register", "start", "pending", <<>>, Null)
    /\ UNCHANGED <<user, token, isInitialized, isFirstTime, isVerifying>>
    /\ UNCHANGED nonAuthVars

\* A faulty register that also logs the user in.
RegisterOk_logsIn ==
    /\ Resume("register")
    /\ \E s \in Sessions : user' = <<BuildUser(s)>> /\ token' = s.access_token
    /\ isVerifying' = TRUE
    /\ authLoading' = FALSE
    /\ authError' = Null
    /\ authEvent' = Event("register", "ok", "resolved", <<>>, Null)
    /\ UNCHANGED <<isInitialized, isFirstTime>>
    /\ UNCHANGED nonAuthVars

\* register(): signUp() returned no error.
RegisterOk ==
    /\ Resume("register")
    /\ isVerifying' = TRUE
    /\ authLoading' = FALSE
    /\ authError' = Null
    /\ authEvent' = Event("register", "ok", "resolved", <<>>, Null)
    /\ UNCHANGED <<user, token, isInitialized, isFirstTime>>
    /\ UNCHANGED nonAuthVars

\* register(): signUp() returned an error or threw; the catch rethrows.
RegisterFails(msg) ==
    /\ Resume("register")
    /\ authError' = msg
    /\ authLoading' = FALSE
    /\ authEvent' = Event("register", "error", "rejected", <<>>, msg)
    /\ UNCHANGED <<user, token, isInitialized, isFirstTime, isVerifying>>
    /\ UNCHANGED nonAuthVars

\* error.message || fallback
MessageOr(msg, fallback) == IF msg = "" THEN fallback ELSE msg

\* login(): up to the await of signInWithPassword().
LoginStart ==
    /\ Suspend("login")
    /\ authLoading' = TRUE
    /\ authError' = Null
    /\ authEvent' = Event("login", "start", "pending", <<>>, Null)
    /\ UNCHANGED <<user, token, isInitialized, isFirstTime, isVerifying>>
    /\ UNCHANGED nonAuthVars

\* login(): signInWithPassword() returned an error; login returns.
LoginCredentialsError(msg) ==
    /\ Resume("login")
    /\ authLoading' = FALSE
    /\ authError' = msg
    /\ authEvent' = Event("login", "credentialsError", "resolved", <<>>, msg)
    /\ UNCHANGED <<user, token, isInitialized, isFirstTime, isVerifying>>
    /\ UNCHANGED nonAuthVars

\* login(): no error and no session; the catch sets the error and rethrows.
LoginNoSession ==
    /\ Resume("login")
    /\ authError' = MessageOr("No session returned during login", "Login failed")
    /\ authLoading' = FALSE
    /\ authEvent' = Event("login", "noSession", "rejected", <<>>, Null)
    /\ UNCHANGED <<user, token, isInitialized, isFirstTime, isVerifying>>
    /\ UNCHANGED nonAuthVars

\* A faulty login whose catch also clears the session.
LoginThrows_clearsSession(msg) ==
    /\ Resume("login")
    /\ authError' = MessageOr(msg, "Login failed")
    /\ authLoading' = FALSE
    /\ user' = <<>>
    /\ token' = Null
    /\ authEvent' = Event("login", "throws", "rejected", <<>>, msg)
    /\ UNCHANGED <<isInitialized, isFirstTime, isVerifying>>
    /\ UNCHANGED nonAuthVars

\* login(): signInWithPassword() threw; the catch sets the error and rethrows.
LoginThrows(msg) ==
    /\ Resume("login")
    /\ authError' = MessageOr(msg, "Login failed")
    /\ authLoading' = FALSE
    /\ authEvent' = Event("login", "throws", "rejected", <<>>, msg)
    /\ UNCHANGED <<user, token, isInitialized, isFirstTime, isVerifying>>
    /\ UNCHANGED nonAuthVars

\* login(): a session came back.
LoginOk(session) ==
    /\ Resume("login")
    /\ user' = <<BuildUser(session)>>
    /\ token' = session.access_token
    /\ authError' = Null
    /\ authLoading' = FALSE
    /\ isVerifying' = FALSE
    /\ authEvent' = Event("login", "session", "resolved", <<session>>, Null)
    /\ UNCHANGED <<isInitialized, isFirstTime>>
    /\ UNCHANGED nonAuthVars

\* handleGoogleSignInSuccess(): the response holds no idToken; thrown and caught
\* before any await.
GoogleNoIdToken ==
    /\ authError' = MessageOr("No ID token in response", "Google sign-in failed")
    /\ authLoading' = FALSE
    /\ authEvent' = Event("google", "noIdToken", "rejected", <<>>, Null)
    /\ UNCHANGED <<user, token, isInitialized, isFirstTime, isVerifying, inflight>>
    /\ UNCHANGED nonAuthVars

\* handleGoogleSignInSuccess(): up to the await of signInWithIdToken().
GoogleStart ==
    /\ Suspend("google")
    /\ authLoading' = TRUE
    /\ authError' = Null
    /\ authEvent' = Event("google", "start", "pending", <<>>, Null)
    /\ UNCHANGED <<user, token, isInitialized, isFirstTime, isVerifying>>
    /\ UNCHANGED nonAuthVars

\* handleGoogleSignInSuccess(): signInWithIdToken() returned an error or threw.
GoogleFails(msg) ==
    /\ Resume("google")
    /\ authError' = MessageOr(msg, "Google sign-in failed")
    /\ authLoading' = FALSE
    /\ authEvent' = Event("google", "error", "rejected", <<>>, msg)
    /\ UNCHANGED <<user, token, isInitialized, isFirstTime, isVerifying>>
    /\ UNCHANGED nonAuthVars

\* handleGoogleSignInSuccess(): no error and no session.
GoogleNoSession ==
    /\ Resume("google")
    /\ authError' = MessageOr("No session returned from Google sign-in", "Google sign-in failed")
    /\ authLoading' = FALSE
    /\ authEvent' = Event("google", "noSession", "rejected", <<>>, Null)
    /\ UNCHANGED <<user, token, isInitialized, isFirstTime, isVerifying>>
    /\ UNCHANGED nonAuthVars

\* handleGoogleSignInSuccess(): a session came back.
GoogleOk(session) ==
    /\ Resume("google")
    /\ user' = <<BuildUser(session)>>
    /\ token' = session.access_token
    /\ authLoading' = FALSE
    /\ authError' = Null
    /\ isVerifying' = FALSE
    /\ authEvent' = Event("google", "session", "resolved", <<session>>, Null)
    /\ UNCHANGED <<isInitialized, isFirstTime>>
    /\ UNCHANGED nonAuthVars

\* logout(): up to the await of signOut().
LogoutStart ==
    /\ Suspend("logout")
    /\ authLoading' = TRUE
    /\ authEvent' = Event("logout", "start", "pending", <<>>, Null)
    /\ UNCHANGED <<user, token, authError, isInitialized, isFirstTime, isVerifying>>
    /\ UNCHANGED nonAuthVars

\* What supabase.auth.signOut() may do.
SignOutResults == {"ok", "error", "throws"}

\* A faulty logout that resets the store only after a successful sign-out.
LogoutDone_noFinally(result) ==
    /\ Resume("logout")
    /\ user' = IF result = "ok" THEN <<>> ELSE user
    /\ token' = IF result = "ok" THEN Null ELSE token
    /\ authLoading' = FALSE
    /\ authError' = Null
    /\ isVerifying' = IF result = "ok" THEN FALSE ELSE isVerifying
    /\ authEvent' = Event("logout", result, "resolved", <<>>, Null)
    /\ UNCHANGED <<isInitialized, isFirstTime>>
    /\ UNCHANGED nonAuthVars

\* logout(): after the await; the catch swallows a failure, the finally resets.
LogoutDone(result) ==
    /\ Resume("logout")
    /\ user' = <<>>
    /\ token' = Null
    /\ authLoading' = FALSE
    /\ authError' = Null
    /\ isVerifying' = FALSE
    /\ authEvent' = Event("logout", result, "resolved", <<>>, Null)
    /\ UNCHANGED <<isInitialized, isFirstTime>>
    /\ UNCHANGED nonAuthVars

\* setFirstTimeDone()
setFirstTimeDone ==
    /\ isFirstTime' = FALSE
    /\ authEvent' = Event("setFirstTimeDone", "done", "resolved", <<>>, Null)
    /\ UNCHANGED <<user, token, authLoading, authError, isInitialized, isVerifying, inflight>>
    /\ UNCHANGED nonAuthVars

AuthInit ==
    /\ user = <<>>
    /\ token = Null
    /\ authLoading = FALSE
    /\ authError = Null
    /\ isInitialized = FALSE
    /\ isFirstTime = FALSE
    /\ isVerifying = FALSE
    /\ inflight = [op \in AuthOps |-> 0]
    /\ authEvent = Event("create", "done", "resolved", <<>>, Null)

AuthNext ==
    \/ InitializeSkipped
    \/ InitializeStart
    \/ \E r \in GetSessionResults : InitializeDone(r)
    \/ RegisterStart
    \/ RegisterOk
    \/ \E m \in ErrorMessages : RegisterFails(m)
    \/ LoginStart
    \/ \E m \in ErrorMessages : LoginCredentialsError(m)
    \/ LoginNoSession
    \/ \E m \in ErrorMessages : LoginThrows(m)
    \/ \E s \in Sessions : LoginOk(s)
    \/ GoogleNoIdToken
    \/ GoogleStart
    \/ \E m \in ErrorMessages : GoogleFails(m)
    \/ GoogleNoSession
    \/ \E s \in Sessions : GoogleOk(s)
    \/ LogoutStart
    \/ \E r \in SignOutResults : LogoutDone(r)
    \/ setFirstTimeDone

(***************************************************************************)
(* Onboarding: OnboardingProvider in src/components/ui/Avatar.tsx and      *)
(* WelcomeScreen / VerifyEmailScreen in src/unnamed/part_000               *)
(***************************************************************************)
LoginRoute == "/(auth)/login"

WelcomeRoute == "/(onboarding)/welcome"

\* VerifyEmailScreen's render: it redirects to login unless the store is verifying.
VerifyEmailScreen == IF ~isVerifying THEN LoginRoute ELSE "Verify Your Email"

\* The fields of the value OnboardingContext.Provider is given.
OnboardingContextValue == {"isFirstTime"}

\* A launch of the app: the provider mounts with isFirstTime = false and its
\* effect calls checkFirstLaunch, which suspends at AsyncStorage.getItem.
Launch ==
    /\ launches < MaxLaunches
    /\ checkPc \in {"notLaunched", "done"}
    /\ launches' = launches + 1
    /\ providerIsFirstTime' = FALSE
    /\ checkPc' = "getItem"
    /\ route' = "index"
    /\ errorsLogged' = 0
    /\ onbEvent' = "launch"
    /\ UNCHANGED <<isFirstLaunch, reported>>
    /\ UNCHANGED nonOnbVars

\* A faulty checkFirstLaunch that never writes the key.
CheckFirstLaunchRead_noWrite ==
    /\ checkPc = "getItem"
    /\ providerIsFirstTime' = (isFirstLaunch = Null)
    /\ checkPc' = "done"
    /\ reported' = Append(reported, providerIsFirstTime')
    /\ onbEvent' = "keyRead"
    /\ UNCHANGED <<isFirstLaunch, launches, route, errorsLogged>>
    /\ UNCHANGED nonOnbVars

\* checkFirstLaunch after getItem resolves: with no key, setIsFirstTime(true) and
\* the call of AsyncStorage.setItem, at which it suspends.
CheckFirstLaunchRead ==
    /\ checkPc = "getItem"
    /\ IF isFirstLaunch = Null
       THEN /\ providerIsFirstTime' = TRUE
            /\ checkPc' = "setItem"
            /\ UNCHANGED reported
       ELSE /\ checkPc' = "done"
            /\ reported' = Append(reported, providerIsFirstTime)
            /\ UNCHANGED providerIsFirstTime
    /\ onbEvent' = "keyRead"
    /\ UNCHANGED <<isFirstLaunch, launches, route, errorsLogged>>
    /\ UNCHANGED nonOnbVars

\* AsyncStorage.setItem('isFirstLaunch', 'true') takes effect and resolves.
CheckFirstLaunchWrite ==
    /\ checkPc = "setItem"
    /\ isFirstLaunch' = "true"
    /\ checkPc' = "done"
    /\ reported' = Append(reported, providerIsFirstTime)
    /\ onbEvent' = "keyWritten"
    /\ UNCHANGED <<providerIsFirstTime, launches, route, errorsLogged>>
    /\ UNCHANGED nonOnbVars

\* The router shows the welcome screen (the routing is not part of these files).
OpenWelcome ==
    /\ launches > 0
    /\ route # WelcomeRoute
    /\ route' = WelcomeRoute
    /\ onbEvent' = "welcome"
    /\ UNCHANGED <<isFirstLaunch, providerIsFirstTime, checkPc, launches, reported, errorsLogged>>
    /\ UNCHANGED nonOnbVars

\* WelcomeScreen.handleComplete: setFirstTimeDone is taken from the context value;
\* calling a field the value does not have throws, and the catch only logs.
handleComplete ==
    /\ route = WelcomeRoute
    /\ errorsLogged < MaxErrorsLogged
    /\ IF "setFirstTimeDone" \in OnboardingContextValue
       THEN /\ providerIsFirstTime' = FALSE
            /\ route' = LoginRoute
            /\ onbEvent' = "completed"
            /\ UNCHANGED errorsLogged
       ELSE /\ errorsLogged' = errorsLogged + 1
            /\ onbEvent' = "completeFailed"
            /\ UNCHANGED <<providerIsFirstTime, route>>
    /\ UNCHANGED <<isFirstLaunch, checkPc, launches, reported>>
    /\ UNCHANGED nonOnbVars

OnbInit ==
    /\ isFirstLaunch = Null
    /\ providerIsFirstTime = FALSE
    /\ checkPc = "notLaunched"
    /\ launches = 0
    /\ reported = <<>>
    /\ route = "index"
    /\ errorsLogged = 0
    /\ onbEvent = "install"

OnbNext ==
    \/ Launch
    \/ CheckFirstLaunchRead
    \/ CheckFirstLaunchWrite
    \/ OpenWelcome
    \/ handleComplete

(***************************************************************************)
(* Creating a trip: src/components/trips/CreateTripModal.tsx inside        *)
(* TripsScreen, src/app/(tabs)/trips.tsx                                   *)
(***************************************************************************)
\* Texts a name or destination field may hold, as sequences of characters.
FieldTexts == {<<>>, <<" ", " ">>, <<" ", "R", "o", "m", "e", " ">>}

IsSpace(c) == c = " "

RECURSIVE TrimLeft(_)
TrimLeft(s) == IF s # <<>> /\ IsSpace(Head(s)) THEN TrimLeft(Tail(s)) ELSE s

RECURSIVE TrimRight(_)
TrimRight(s) ==
    IF s # <<>> /\ IsSpace(s[Len(s)]) THEN TrimRight(SubSeq(s, 1, Len(s) - 1)) ELSE s

\* String.prototype.trim
Trim(s) == TrimRight(TrimLeft(s))

Days == 1..MaxDay

\* validateForm(): the alert it raises, or "valid".
validateForm ==
    IF Trim(trip.name) = <<>> THEN "Please enter a trip name."
    ELSE IF Trim(trip.destination) = <<>> THEN "Please enter a destination."
    ELSE IF trip.endDate < trip.startDate THEN "End date must be after start date."
    ELSE "valid"

\* TripsScreen.handleCreateTrip: the FAB opens the modal.
handleCreateTrip ==
    /\ ~isCreateModalVisible
    /\ isCreateModalVisible' = TRUE
    /\ tripEvent' = "opened"
    /\ UNCHANGED <<trip, showDatePicker, modalLoading, submits, alert, platform>>
    /\ UNCHANGED nonTripVars

\* CreateTripModal.handleDismiss -> TripsScreen.handleModalClose.
handleDismiss ==
    /\ isCreateModalVisible
    /\ isCreateModalVisible' = FALSE
    /\ tripEvent' = "dismissed"
    /\ UNCHANGED <<trip, showDatePicker, modalLoading, submits, alert, platform>>
    /\ UNCHANGED nonTripVars

\* onChangeText of the name field.
SetName(text) ==
    /\ isCreateModalVisible
    /\ text # trip.name
    /\ trip' = [trip EXCEPT !.name = text]
    /\ tripEvent' = "edited"
    /\ UNCHANGED <<isCreateModalVisible, showDatePicker, modalLoading, submits, alert, platform>>
    /\ UNCHANGED nonTripVars

\* onChangeText of the destination field.
SetDestination(text) ==
    /\ isCreateModalVisible
    /\ text # trip.destination
    /\ trip' = [trip EXCEPT !.destination = text]
    /\ tripEvent' = "edited"
    /\ UNCHANGED <<isCreateModalVisible, showDatePicker, modalLoading, submits, alert, platform>>
    /\ UNCHANGED nonTripVars

\* A press on the start or the end date opens the picker.
OpenDatePicker(which) ==
    /\ isCreateModalVisible
    /\ showDatePicker # which
    /\ showDatePicker' = which
    /\ tripEvent' = "picker"
    /\ UNCHANGED <<isCreateModalVisible, trip, modalLoading, submits, alert, platform>>
    /\ UNCHANGED nonTripVars

\* handleDateChange(event, selectedDate); selected is <<>> when no date comes with
\* the event. The end picker offers no day before the start date (minimumDate).
handleDateChange(selected) ==
    /\ isCreateModalVisible
    /\ showDatePicker # Null
    /\ selected # <<>> /\ showDatePicker = "end" => selected[1] >= trip.startDate
    /\ showDatePicker' = IF platform = "android" THEN Null ELSE showDatePicker
    /\ trip' = IF selected = <<>> THEN trip
               ELSE IF showDatePicker = "start" THEN [trip EXCEPT !.startDate = selected[1]]
               ELSE [trip EXCEPT !.endDate = selected[1]]
    /\ tripEvent' = "date"
    /\ UNCHANGED <<isCreateModalVisible, modalLoading, submits, alert, platform>>
    /\ UNCHANGED nonTripVars

\* CreateTripModal.handleSubmit with a form validateForm rejects.
SubmitInvalid ==
    /\ isCreateModalVisible
    /\ validateForm # "valid"
    /\ alert' = validateForm
    /\ tripEvent' = "invalid"
    /\ UNCHANGED <<isCreateModalVisible, trip, showDatePicker, modalLoading, submits, platform>>
    /\ UNCHANGED nonTripVars

\* CreateTripModal.handleSubmit with a valid form: setLoading(true), then onSubmit
\* -> TripsScreen.handleTripSubmit, which suspends at the await of createTrip.
SubmitValid ==
    /\ isCreateModalVisible
    /\ validateForm = "valid"
    /\ submits < MaxSubmits
    /\ modalLoading' = TRUE
    /\ submits' = submits + 1
    /\ tripEvent' = "submitted"
    /\ UNCHANGED <<isCreateModalVisible, trip, showDatePicker, alert, platform>>
    /\ UNCHANGED nonTripVars

\* createTrip resolves: handleTripSubmit hides the modal and returns; handleSubmit
\* calls onClose and, in its finally, setLoading(false).
CreateTripResolves ==
    /\ submits > 0
    /\ submits' = submits - 1
    /\ isCreateModalVisible' = FALSE
    /\ modalLoading' = FALSE
    /\ tripEvent' = "created"
    /\ UNCHANGED <<trip, showDatePicker, alert, platform>>
    /\ UNCHANGED nonTripVars

\* Whether handleTripSubmit lets a failure of createTrip reach its caller.
handleTripSubmitRethrows == FALSE

\* createTrip rejects: handleTripSubmit's catch logs the error and returns, so
\* onSubmit resolves; handleSubmit calls onClose and, in its finally,
\* setLoading(false). Its own catch runs only if onSubmit rejects.
CreateTripRejects ==
    /\ submits > 0
    /\ submits' = submits - 1
    /\ IF handleTripSubmitRethrows
       THEN /\ alert' = "Failed to create trip. Please try again."
            /\ UNCHANGED isCreateModalVisible
       ELSE /\ isCreateModalVisible' = FALSE
            /\ UNCHANGED alert
    /\ modalLoading' = FALSE
    /\ tripEvent' = "createFailed"
    /\ UNCHANGED <<trip, showDatePicker, platform>>
    /\ UNCHANGED nonTripVars

TripInit ==
    /\ isCreateModalVisible = FALSE
    /\ trip = [name |-> <<>>, destination |-> <<>>, startDate |-> 1, endDate |-> 1]
    /\ showDatePicker = Null
    /\ modalLoading = FALSE
    /\ submits = 0
    /\ alert = "none"
    /\ platform \in {"ios", "android"}
    /\ tripEvent = "init"

TripNext ==
    \/ handleCreateTrip
    \/ handleDismiss
    \/ \E text \in FieldTexts : SetName(text)
    \/ \E text \in FieldTexts : SetDestination(text)
    \/ \E which \in {"start", "end"} : OpenDatePicker(which)
    \/ \E selected \in {<<>>} \cup {<<d>> : d \in Days} : handleDateChange(selected)
    \/ SubmitInvalid
    \/ SubmitValid
    \/ CreateTripResolves
    \/ CreateTripRejects

(***************************************************************************)
(* Specifications: one per screen or store, over the same initial state.   *)
(***************************************************************************)
Init == TodoInit /\ AuthInit /\ OnbInit /\ TripInit

\* The screens are checked one at a time; the device the others would run on is
\* then left fixed.
InitOneDevice == Init /\ platform = "ios"

SpecTodo == InitOneDevice /\ [][TodoNext]_vars

SpecAuth == InitOneDevice /\ [][AuthNext]_vars

SpecOnboarding == InitOneDevice /\ [][OnbNext]_vars

SpecTrips == Init /\ [][TripNext]_vars

(***************************************************************************)
(* Claims about the todo screen (checked under SpecTodo).                  *)
(***************************************************************************)
IsPrefix(s, t) == Len(s) <= Len(t) /\ SubSeq(t, 1, Len(s)) = s

\* The step issues this fetchTodos call and no other.
Issues(r) == pending' = pending (+) SetToBag({r})

\* The step issues a fetchTodos call.
FetchIssued == BagCardinality(pending') > BagCardinality(pending)

\* The step delivers the answer to a load-more call.
LoadMoreAnswered ==
    \E r \in BagToSet(pending) : r.kind = "loadMore" /\ pending' = pending (-) SetToBag({r})

C2_Original ==
    /\ (ConnectionBanner = "Connecting..." <=> wsStatus = "CONNECTING")
    /\ (ConnectionBanner = "Reconnecting..." <=> wsStatus = "RECONNECTING")
    /\ (ConnectionErrorShown <=> wsStatus = "ERROR")

\* C2 amended: while the list view is rendered each connection banner is shown
\* iff the status has the matching value (none for CONNECTED, DISCONNECTED or an
\* absent connection); in the spinner, error and empty views no connection
\* banner is shown whatever the status; no step of TodoList writes the status.
C2_MirrorsStatus ==
    /\ [](TodoView = "list" =>
            /\ (ConnectionBanner = "Connecting..." <=> wsStatus = "CONNECTING")
            /\ (ConnectionBanner = "Reconnecting..." <=> wsStatus = "RECONNECTING")
            /\ (ConnectionErrorShown <=> wsStatus = "ERROR"))
    /\ [](TodoView # "list" => ConnectionBanner = "none" /\ ~ConnectionErrorShown)
    /\ [][wsStatus' # wsStatus => lastActor' = "subscription"]_vars

\* C2 witness: the list view shows the reconnecting banner.
C2_Witness ==
    /\ TodoView = "list"
    /\ wsStatus = "RECONNECTING"
    /\ ConnectionBanner = "Reconnecting..."

\* C3: no automatic retry. Once the store's error is set and tripId does not
\* change, a fetchTodos call is issued only by a press of Retry, and the press
\* issues exactly one call, fetchTodos(tripId, 0, 20).
C3_NoAutoRetry ==
    [][todoError # Null /\ tripId' = tripId /\ FetchIssued =>
         /\ lastActor' = "TodoList"
         /\ TodoView = "error"
         /\ Issues(Request(tripId, 0, 20, "retry"))]_vars

\* C3 witness: Retry was pressed after a failed load-more, with todos on the
\* list, and its one request is in flight.
C3_Witness ==
    /\ lastActor = "TodoList"
    /\ Len(todos) > 0
    /\ pending = SetToBag({Request(tripId, 0, 20, "retry")})

(***************************************************************************)
(* Claims about the auth store (checked under SpecAuth).                   *)
(***************************************************************************)
\* A suspended call of the method resumes and runs to its end in this step.
Completes(op) == inflight'[op] < inflight[op]

\* The method is called and reaches its await in this step.
Starts(op) == inflight'[op] > inflight[op]

\* C4: when an initialize() call that passed its guard completes, isInitialized
\* is true and loading is false, and user and token are those of the recovered
\* session if getSession returned one without error, and both null otherwise.
C4_InitializeCompletes ==
    [][Completes("initialize") =>
         /\ isInitialized'
         /\ ~authLoading'
         /\ IF authEvent'.session # <<>>
            THEN /\ user' = <<BuildUser(authEvent'.session[1])>>
                 /\ token' = authEvent'.session[1].access_token
            ELSE user' = <<>> /\ token' = Null]_vars

\* C4 witness: initialize recovered ann's session ("42b" parses to 42).
C4_Witness ==
    /\ authEvent.op = "initialize"
    /\ authEvent.outcome = "session"
    /\ isInitialized
    /\ ~authLoading
    /\ user # <<>>
    /\ user[1].id = 42
    /\ token = "token-ann"

\* C5: logout resets the store whether or not the backend sign-out succeeds:
\* when it completes user, token and error are null, loading and isVerifying are
\* false, its promise resolves, and no step of logout changes isInitialized.
C5_LogoutResets ==
    [][/\ (Completes("logout") =>
             /\ user' = <<>>
             /\ token' = Null
             /\ ~authLoading'
             /\ authError' = Null
             /\ ~isVerifying'
             /\ authEvent'.promise = "resolved")
       /\ (Completes("logout") \/ Starts("logout") => isInitialized' = isInitialized)]_vars

\* C5 witness: an initialized store after a logout whose signOut() threw.
C5_Witness ==
    /\ authEvent.op = "logout"
    /\ authEvent.outcome = "throws"
    /\ isInitialized
    /\ user = <<>>
    /\ token = Null

\* C6: a failed login leaves the session untouched. On a credentials error
\* login sets error to the backend message and loading to false, keeps user and
\* token and resolves; when no session is returned or the call throws it sets
\* error, sets loading to false, keeps user and token and rejects; a successful
\* login sets user and token from the one session and clears error and
\* isVerifying; no other step of login changes user or token.
C6_LoginFailure ==
    [][/\ (Starts("login") => user' = user /\ token' = token)
       /\ (Completes("login") =>
             /\ ~authLoading'
             /\ authEvent'.outcome \in {"credentialsError", "noSession", "throws", "session"}
             /\ (authEvent'.outcome = "credentialsError" =>
                   /\ authError' = authEvent'.message
                   /\ user' = user /\ token' = token
                   /\ authEvent'.promise = "resolved")
             /\ (authEvent'.outcome \in {"noSession", "throws"} =>
                   /\ authError' # Null
                   /\ authError' # ""
                   /\ user' = user /\ token' = token
                   /\ authEvent'.promise = "rejected")
             /\ (authEvent'.outcome = "session" =>
                   /\ user' = <<BuildUser(authEvent'.session[1])>>
                   /\ token' = authEvent'.session[1].access_token
                   /\ authError' = Null
                   /\ ~isVerifying'
                   /\ authEvent'.promise = "resolved"))]_vars

\* C6 witness: logged in as ann, a later login threw with an empty message.
C6_Witness ==
    /\ authEvent.op = "login"
    /\ authEvent.outcome = "throws"
    /\ authEvent.message = ""
    /\ authError = "Login failed"
    /\ user # <<>>
    /\ token = "token-ann"

\* C7: a successful register() leaves isVerifying true, loading false, error
\* null and user and token unchanged, and resolves; a failed one sets error to
\* the failure's message and loading to false, keeps isVerifying, user and token
\* and rejects; isVerifying then goes back to false only by a successful login,
\* a successful Google sign-in or a completed logout.
C7_RegisterVerifying ==
    [][/\ (Starts("register") => user' = user /\ token' = token /\ isVerifying' = isVerifying)
       /\ (Completes("register") =>
             /\ ~authLoading'
             /\ user' = user /\ token' = token
             /\ authEvent'.outcome \in {"ok", "error"}
             /\ (authEvent'.outcome = "ok" =>
                   isVerifying' /\ authError' = Null /\ authEvent'.promise = "resolved")
             /\ (authEvent'.outcome = "error" =>
                   /\ authError' = authEvent'.message
                   /\ isVerifying' = isVerifying
                   /\ authEvent'.promise = "rejected"))
       /\ (isVerifying /\ ~isVerifying' =>
             \/ Completes("login") /\ authEvent'.outcome = "session"
             \/ Completes("google") /\ authEvent'.outcome = "session"
             \/ Completes("logout"))]_vars

\* C7 witness: after a successful register, a failed login left isVerifying set
\* and nobody logged in.
C7_Witness ==
    /\ isVerifying
    /\ authEvent.op = "login"
    /\ authEvent.outcome = "credentialsError"
    /\ VerifyEmailScreen = "Verify Your Email"
    /\ user = <<>>
    /\ token = Null

C9_CompleteEndsOnLogin ==
    onbEvent \in {"completed", "completeFailed"} => route = LoginRoute

(***************************************************************************)
(* Claims about the create-trip flow (checked under SpecTrips).            *)
(***************************************************************************)
\* C10 as stated: when createTrip fails for a submitted form the modal stays as
\* it was and the 'Failed to create trip' alert is shown; when it succeeds the
\* modal is closed; either way the modal's loading flag is false afterwards.
C10_ClosesOnlyOnSuccess ==
    [][/\ (tripEvent' = "createFailed" /\ submits' < submits =>
             /\ isCreateModalVisible' = isCreateModalVisible
             /\ alert' = "Failed to create trip. Please try again."
             /\ ~modalLoading')
       /\ (tripEvent' = "created" /\ submits' < submits =>
             ~isCreateModalVisible' /\ ~modalLoading')]_vars

(***************************************************************************)
(* Pagination guard (checked under SpecTodo).                              *)
(***************************************************************************)
\* The step issues the load-more call r.
IssuesLoadMore(r) == r.kind = "loadMore" /\ CopiesIn(r, pending') > CopiesIn(r, pending)

====
